---- MODULE Spec2Model ----
(***************************************************************************)
(* Candidate-set manager of grant-matcherator: the match recompute         *)
(* (services/matches.CalculateAndStoreMatches), the stored-match listing   *)
(* (GetStoredMatches) and the connection handlers that create, delete and  *)
(* dismiss (handlers/connection/handlers.go), over a PostgreSQL store.     *)
(*                                                                         *)
(* The store is modelled at statement granularity under READ COMMITTED:    *)
(* every statement is one step that reads the committed tables; a          *)
(* transaction keeps its own uncommitted writes until Commit; DDL is       *)
(* transactional; DROP TABLE takes the table's ACCESS EXCLUSIVE lock until *)
(* the transaction ends, so statements of other sessions on temp_matches   *)
(* wait for it.                                                            *)
(***************************************************************************)
EXTENDS Integers, FiniteSets, Sequences, TLC

\* ------------------------------------------------------------------ bounds
NumProcs == 2      \* requests served concurrently (net/http goroutines)
MaxConnId == 1     \* cap on the connections.id serial
MaxFaults == 1     \* store failures injected in one run
MaxRequests == 3   \* requests received in one run
MaxSockets == 2    \* websockets of one kind open at once

Procs == 1 .. NumProcs
Sockets == 1 .. MaxSockets

\* ------------------------------------------------------------------ users
Users == {1, 2, 3}
Sectors == {"Education", "Health"}
Groups == {"Youth", "Elderly"}

\* users.role of the three organizations of the matching scenarios
InitRole == [u \in Users |-> IF u = 2 THEN "recipient" ELSE "provider"]

\* temp_matches before any recompute has committed: the relation does not exist
NoTable == [exists |-> FALSE, rows |-> {}]

Table(rows) == [exists |-> TRUE, rows |-> rows]

VARIABLES
    role,               \* users.role; "none": no row in users
    status,             \* users.status
    organization_name,  \* profiles.organization_name
    zip_code,           \* profiles.zip_code
    now,                \* the clock (time.Now(), CURRENT_TIMESTAMP), in months
    sectors,            \* profiles.sectors
    target_groups,      \* profiles.target_groups
    project_stage,      \* profiles.project_stage
    location,           \* profiles.state, profiles.city
    provider_data,      \* provider_data: [funding_type, amount_offered, deadline]
    recipient_data,     \* recipient_data: [budget_requested, timeline]
    connections,        \* rows of connections: [id, initiator_id, target_id]
    nextConnId,         \* next value of the connections.id serial
    dismissed_matches,  \* rows of dismissed_matches: <<user_id, match_id>>
    temp_matches,       \* NoTable, or Table of rows [user_id, match_id, match_score]
    req,                \* per request slot: handler, position, arguments, tx state
    resp,               \* the response written by the last step, NoResp if it wrote none
    requests,           \* requests received so far
    faults,             \* store failures so far
    everConnected,      \* history: unordered pairs for which a connection row was created
    chat_opt_in,        \* profiles.chat_opt_in
    chat_messages,      \* rows of chat_messages: [id, match_id, sender_id, content]
    chatConnections,    \* the connections map of the chat sockets: pairs <<matchID, conn>>
    chatSocket,         \* per chat socket: its goroutine's position, user, match, message
    delivered,          \* what the last broadcast wrote to which chat socket
    notificationConnections,  \* the map userID -> conn, 0 where the user has no entry
    notifSocket         \* per notification socket: its goroutine's position and user

vars == <<role, status, organization_name, zip_code, now,
          sectors, target_groups, project_stage, location, provider_data,
          recipient_data, connections, nextConnId,
          dismissed_matches, temp_matches, req, resp, requests, faults, everConnected,
          chat_opt_in, chat_messages, chatConnections, chatSocket, delivered,
          notificationConnections, notifSocket>>

profileVars == <<role, status, organization_name, zip_code, now,
                 sectors, target_groups, project_stage, location,
                 provider_data, recipient_data, chat_opt_in>>

chatVars == <<chat_messages, chatConnections, chatSocket, delivered>>

notifVars == <<notificationConnections, notifSocket>>

\* ------------------------------------------------------------------ scoring
Max(a, b) == IF a >= b THEN a ELSE b

RECURSIVE Fact(_)
Fact(n) == IF n <= 1 THEN 1 ELSE n * Fact(n - 1)

\* match_score is a FLOAT; every denominator is an array length of at most
\* Cardinality(Sectors) or Cardinality(Groups), so scores are kept exactly as
\* integers in units of 1/ScoreDen.
ScoreDen == Fact(Max(Cardinality(Sectors), Cardinality(Groups)))

\* COALESCE(COUNT(s IN UNNEST(p1.x) WHERE s = ANY(p2.x))::float
\*          / NULLIF(COUNT(UNNEST(p2.x)), 0), 0) * 30
\* p1 is the candidate's array, p2 the subject's.
OverlapTerm(p1, p2) ==
    IF Cardinality(p2) = 0 THEN 0
    ELSE (Cardinality(p1 \cap p2) * 30 * ScoreDen) \div Cardinality(p2)

\* the match_score column computed for candidate u of subject s
MatchScore(s, u) ==
    OverlapTerm(sectors[u], sectors[s]) + OverlapTerm(target_groups[u], target_groups[s])

Threshold == 30

\* 'provider' subjects are matched with recipients, every other role with providers
CandidateRole(userRole) == IF userRole = "provider" THEN "recipient" ELSE "provider"

\* EXISTS (SELECT 1 FROM connections c WHERE (initiator = a AND target = b)
\*                                        OR (initiator = b AND target = a))
ConnectedOneWay(a, b) ==
    \E c \in connections : c.initiator_id = a /\ c.target_id = b

Connected(a, b) ==
    \E c \in connections :
        \/ c.initiator_id = a /\ c.target_id = b
        \/ c.initiator_id = b /\ c.target_id = a

\* p1.sectors && p2.sectors OR p1.target_groups && p2.target_groups
\* (a NULL array overlaps nothing, like the empty one)
PositiveSignal(s, u) ==
    \/ sectors[u] \cap sectors[s] # {}
    \/ target_groups[u] \cap target_groups[s] # {}

MeetsThresholdStrict(score) == score > Threshold * ScoreDen

MeetsThreshold(score) == score >= Threshold * ScoreDen

\* the WHERE clause without its last two conjuncts
QualifiesUngated(s, u) ==
    /\ role[u] = CandidateRole(role[s])
    /\ status[u] = "active"
    /\ <<s, u>> \notin dismissed_matches
    /\ ~Connected(s, u)

\* the WHERE clause of the INSERT ... SELECT, for candidate row u of subject s
Qualifies(s, u) ==
    /\ role[u] = CandidateRole(role[s])
    /\ status[u] = "active"
    /\ <<s, u>> \notin dismissed_matches
    /\ ~Connected(s, u)
    /\ PositiveSignal(s, u)
    /\ MeetsThreshold(MatchScore(s, u))

\* the rows the INSERT ... SELECT produces for subject s
MatchRows(s) ==
    { [user_id |-> s, match_id |-> u, match_score |-> MatchScore(s, u)] :
        u \in {x \in Users : Qualifies(s, x)} }

\* ------------------------------------------------------------------ GetPotentialMatchesQuery
\* The five-factor query. Factor scores are FLOATs on a 0..100 scale, kept in
\* units of 1/ScoreDen; the amounts drawn divide without remainder.
WeightDen == 10    \* the weights 0.3, 0.3, 0.2, 0.1, 0.1 in tenths

\* CASE WHEN a && b THEN CARDINALITY(a INTERSECT b)::float
\*                        / GREATEST(CARDINALITY(a), CARDINALITY(b))::float * 100 ELSE 0
ArrayScore(a, b) ==
    IF a \cap b # {}
    THEN (Cardinality(a \cap b) * 100 * ScoreDen) \div Max(Cardinality(a), Cardinality(b))
    ELSE 0

sector_score(p, r) == ArrayScore(sectors[p], sectors[r])

target_group_score(p, r) == ArrayScore(target_groups[p], target_groups[r])

\* budget_score without its first CASE arm (the cap at 100)
budget_scoreUncapped(p, r) ==
    IF recipient_data[r].budget_requested = 0 THEN 100 * ScoreDen
    ELSE (provider_data[p].amount_offered * 100 * ScoreDen)
            \div recipient_data[r].budget_requested

\* ELSE amount_offered::float / NULLIF(budget_requested, 0)::float * 100: reached
\* only with amount_offered < budget_requested, so with budget_requested > 0
budget_score(p, r) ==
    IF provider_data[p].amount_offered >= recipient_data[r].budget_requested
    THEN 100 * ScoreDen
    ELSE (provider_data[p].amount_offered * 100 * ScoreDen)
            \div recipient_data[r].budget_requested

\* the INTERVAL added to CURRENT_TIMESTAMP for the recipient's timeline, in months
TimelineHorizon(t) ==
    CASE t = "1-3 months" -> 3
      [] t = "3-6 months" -> 6
      [] t = "6-12 months" -> 12
      [] OTHER -> 0

\* COALESCE(p.deadline, CURRENT_TIMESTAMP + INTERVAL '1 year') >= CURRENT_TIMESTAMP + horizon
timeline_score(p, r) ==
    LET d == IF provider_data[p].deadline.null THEN now + 12
             ELSE provider_data[p].deadline.months
    IN  IF d >= now + TimelineHorizon(recipient_data[r].timeline) THEN 100 * ScoreDen ELSE 0

\* the stage CASE without its ELSE arm: no match gives NULL, 0 in the sum
stage_scoreNoElse(p, r) ==
    LET st == project_stage[r]
        ft == provider_data[p].funding_type
    IN  ScoreDen *
        (CASE st = "Early Stage" /\ ft = "seed" -> 100
           [] st = "Growth Stage" /\ ft = "series a" -> 100
           [] st = "Mature Stage" /\ ft = "series b" -> 100
           [] st = "Early Stage" /\ ft = "pitch comp" -> 80
           [] st = "Growth Stage" /\ ft = "pitch comp" -> 60
           [] st = "Mature Stage" /\ ft = "pitch comp" -> 40
           [] OTHER -> 0)

\* a NULL or unlisted project_stage or funding_type equals no literal: ELSE 20
stage_score(p, r) ==
    LET st == project_stage[r]
        ft == provider_data[p].funding_type
    IN  ScoreDen *
        (CASE st = "Early Stage" /\ ft = "seed" -> 100
           [] st = "Growth Stage" /\ ft = "series a" -> 100
           [] st = "Mature Stage" /\ ft = "series b" -> 100
           [] st = "Early Stage" /\ ft = "pitch comp" -> 80
           [] st = "Growth Stage" /\ ft = "pitch comp" -> 60
           [] st = "Mature Stage" /\ ft = "pitch comp" -> 40
           [] OTHER -> 20)

HasLocation(u) == location[u].state # "NULL" /\ location[u].city # "NULL"

location_score(p, r) ==
    CASE ~HasLocation(p) \/ ~HasLocation(r) -> 0
      [] location[p].state = location[r].state /\ location[p].city = location[r].city -> 100
      [] location[p].state = location[r].state -> 50
      [] OTHER -> 0

\* sector_score * 0.3 + target_group_score * 0.3 + budget_score * 0.2
\* + timeline_score * 0.1 + stage_score * 0.1, in units of 1/(WeightDen * ScoreDen)
match_score(p, r) ==
    3 * sector_score(p, r) + 3 * target_group_score(p, r) + 2 * budget_score(p, r)
    + timeline_score(p, r) + stage_score(p, r)

\* the WHERE clause of the final SELECT
QueryWhere(p, r) ==
    /\ match_score(p, r) >= Threshold * WeightDen * ScoreDen
    /\ sector_score(p, r) > 0 \/ target_group_score(p, r) > 0
    /\ \/ HasLocation(p) /\ HasLocation(r) /\ location_score(p, r) > 0
       \/ ~HasLocation(p)
       \/ ~HasLocation(r)
    /\ ~Connected(p, r)

\* the rows of GetPotentialMatchesQuery: the CTEs provider_data and recipient_data
\* keep the active users of each role, match_calculations joins every pair
GetPotentialMatchesQuery ==
    { [provider_id |-> p, recipient_id |-> r,
       sector_score |-> sector_score(p, r),
       target_group_score |-> target_group_score(p, r),
       budget_score |-> budget_score(p, r),
       timeline_score |-> timeline_score(p, r),
       stage_score |-> stage_score(p, r),
       location_score |-> location_score(p, r),
       match_score |-> match_score(p, r)] :
        <<p, r>> \in { x \in Users \X Users :
                          /\ role[x[1]] = "provider" /\ status[x[1]] = "active"
                          /\ role[x[2]] = "recipient" /\ status[x[2]] = "active"
                          /\ QueryWhere(x[1], x[2]) } }

\* ------------------------------------------------------------------ store
RowsOf(table, s) == {r \in table.rows : r.user_id = s}

\* positions inside CalculateAndStoreMatches and inside DismissMatchHandler's
\* transaction; the caller's SELECT role FROM users and db.Begin() touch no table
\* that changes and are taken with the statement after them
CalcPcs == {"c_drop", "c_create", "c_insert", "c_commit"}
DismissPcs == {"d_insert", "d_delete", "d_commit"}

\* q's transaction has dropped temp_matches and not ended: ACCESS EXCLUSIVE
HoldsAccessExclusive(q) == req[q].dropped

\* q's dismiss transaction has run its DELETE and not ended: ROW EXCLUSIVE
HoldsRowExclusive(q) == req[q].pc = "d_commit"

\* q's transaction has created temp_matches where none existed, and not ended
CreatedPending(q) == req[q].pc \in {"c_insert", "c_commit"} /\ ~req[q].dropped

\* a statement of p on temp_matches waits while another session holds the
\* table's ACCESS EXCLUSIVE lock
TempLocked(p) == \E q \in Procs \ {p} : HoldsAccessExclusive(q)

\* DROP TABLE waits for every other lock on the table
DropBlocked(p) ==
    \E q \in Procs \ {p} : HoldsAccessExclusive(q) \/ HoldsRowExclusive(q)

\* the tables a read of temp_matches by p can return now: the committed one, and
\* none while the read waits for the lock
VisibleTempDirty(p) ==
    IF \E q \in Procs \ {p} : req[q].dropped
    THEN { IF req[q].pc = "c_create" THEN NoTable ELSE Table(req[q].rows) :
              q \in {x \in Procs \ {p} : req[x].dropped} }
    ELSE {temp_matches}

VisibleTemp(p) == IF TempLocked(p) THEN {} ELSE {temp_matches}

CanFault == faults < MaxFaults

Quiescent == \A p \in Procs : req[p].pc = "idle"

IdleReq ==
    [pc |-> "idle", op |-> "none", userID |-> 0, targetID |-> 0,
     dropped |-> FALSE, rows |-> {}]

\* at: the position the handler returned from (what its log line names)
NoResp == [op |-> "none", userID |-> 0, targetID |-> 0, at |-> "idle", code |-> 0, body |-> <<>>]

\* a request arrives and is served by a free goroutine (the slots are
\* interchangeable: the lowest free one takes it)
Receive(p, o, u, t, first) ==
    /\ req[p].pc = "idle"
    /\ \A q \in Procs : q < p => req[q].pc # "idle"
    /\ requests < MaxRequests
    /\ requests' = requests + 1
    /\ req' = [req EXCEPT ![p] = [pc |-> first, op |-> o, userID |-> u, targetID |-> t,
                                   dropped |-> FALSE, rows |-> {}]]

\* the handler writes its response and returns; any open transaction has ended
Respond(p, c, b) ==
    /\ req' = [req EXCEPT ![p] = IdleReq]
    /\ resp' = [op |-> req[p].op, userID |-> req[p].userID,
                targetID |-> req[p].targetID, at |-> req[p].pc, code |-> c, body |-> b]

Goto(p, next) ==
    /\ req' = [req EXCEPT ![p].pc = next]
    /\ resp' = NoResp

\* ------------------------------------------------------------------ Init
\* a chat message as the handler holds it; none
NoMessage == [id |-> 0, match_id |-> 0, sender_id |-> 0, content |-> ""]

\* broken: the conn was closed by a broadcast whose write to it failed
ClosedSocket ==
    [pc |-> "closed", userID |-> 0, matchID |-> 0, message |-> NoMessage, broken |-> FALSE]

\* the server has just started: no chat message stored, both maps empty, no
\* socket open
InitSockets ==
    /\ chat_messages = {}
    /\ chatConnections = {}
    /\ chatSocket = [s \in Sockets |-> ClosedSocket]
    /\ delivered = {}
    /\ notificationConnections = [u \in Users |-> 0]
    /\ notifSocket = [s \in Sockets |-> [pc |-> "closed", userID |-> 0]]

InitStore ==
    /\ role = InitRole
    /\ organization_name = [u \in Users |-> "Org"]
    /\ zip_code = [u \in Users |-> "90001"]
    /\ now = 0
    /\ connections = {}
    /\ nextConnId = 1
    /\ dismissed_matches = {}
    /\ temp_matches = NoTable
    /\ req = [p \in Procs |-> IdleReq]
    /\ resp = NoResp
    /\ requests = 0
    /\ faults = 0
    /\ everConnected = {}
    /\ chat_opt_in = [u \in Users |-> FALSE]
    /\ InitSockets

\* a deadline: NULL, or the month it falls in (the clock starts at month 0)
NullDeadline == [null |-> TRUE, months |-> 0]
Deadline(m) == [null |-> FALSE, months |-> m]

\* grant data of the three organizations: provider 1 offers 50 (thousand) with
\* a deadline two months ahead, recipient 2 asks for 40
InitGrantData ==
    /\ project_stage = (1 :> "" @@ 2 :> "Early Stage" @@ 3 :> "")
    /\ location = [u \in Users |-> [state |-> "CA", city |-> "Los Angeles"]]
    /\ provider_data =
          (1 :> [funding_type |-> "seed", amount_offered |-> 50, deadline |-> Deadline(2)]
           @@ 3 :> [funding_type |-> "grant", amount_offered |-> 40, deadline |-> NullDeadline])
    /\ recipient_data = (2 :> [budget_requested |-> 40, timeline |-> "short_term"])

\* three signed-up organizations with completed profiles
Init ==
    /\ InitStore
    /\ InitGrantData
    /\ status = [u \in Users |-> "active"]
    /\ sectors = (1 :> {"Education"} @@ 2 :> {"Education", "Health"} @@ 3 :> {"Health"})
    /\ target_groups = (1 :> {"Youth"} @@ 2 :> {"Youth"} @@ 3 :> {"Youth"})

\* the profiles of provider 1 and recipient 2 drawn from every value; a recipient
\* is active only with at least one sector and one target group (UpdateUserStatus)
InitScore ==
    /\ InitStore
    /\ InitGrantData
    /\ \E s1, s2 \in SUBSET Sectors :
          sectors = (1 :> s1 @@ 2 :> s2 @@ 3 :> {})
    /\ \E g1, g2 \in SUBSET Groups :
          target_groups = (1 :> g1 @@ 2 :> g2 @@ 3 :> {"Youth"})
    /\ \E a1, a2 \in {"active", "inactive"} :
          /\ a2 = "active" => sectors[2] # {} /\ target_groups[2] # {}
          /\ status = (1 :> a1 @@ 2 :> a2 @@ 3 :> "active")

\* provider 1 and recipient 2 with every combination of the attributes the
\* five-factor query reads; provider 1's status can be stale (its deadline passes
\* without any request), recipient 2 is active when its profile is complete
InitQuery ==
    /\ InitStore
    /\ \E s1 \in SUBSET Sectors, s2 \in {{"Education"}, {"Education", "Health"}} :
          sectors = (1 :> s1 @@ 2 :> s2 @@ 3 :> {"Health"})
    /\ \E g1 \in {{}, {"Youth"}} :
          target_groups = (1 :> g1 @@ 2 :> {"Youth"} @@ 3 :> {"Elderly"})
    /\ status = [u \in Users |-> "active"]
    /\ \E st \in {"Early Stage", "Growth Stage", "", "NULL"} :
          project_stage = (1 :> "" @@ 2 :> st @@ 3 :> "")
    /\ \E s \in {"CA", "NY"} :
          location = (1 :> [state |-> "CA", city |-> "Los Angeles"]
                      @@ 2 :> [state |-> s, city |-> "Los Angeles"]
                      @@ 3 :> [state |-> "CA", city |-> "San Diego"])
    /\ \E ft \in {"seed", "pitch comp"}, a \in {0, 50},
          d \in {NullDeadline, Deadline(-1), Deadline(2), Deadline(4)} :
          provider_data =
             (1 :> [funding_type |-> ft, amount_offered |-> a, deadline |-> d]
              @@ 3 :> [funding_type |-> "grant", amount_offered |-> 40,
                       deadline |-> NullDeadline])
    /\ \E b \in {0, 40, 100}, t \in {"1-3 months", "short_term"} :
          recipient_data = (2 :> [budget_requested |-> b, timeline |-> t])

\* ------------------------------------------------------------------ CalculateAndStoreMatches
\* deferred tx.Rollback() of a transaction that did not commit: nothing it wrote,
\* dropped or created reaches the committed tables
RollbackKeepsDrop(p) ==
    /\ temp_matches' = (IF req[p].dropped THEN NoTable ELSE temp_matches)
    /\ UNCHANGED dismissed_matches

Rollback(p) == UNCHANGED <<temp_matches, dismissed_matches>>

\* where each caller goes when CalculateAndStoreMatches returns
CalcReturn(p, ok) ==
    CASE req[p].op = "GetPotentialMatches" ->
            IF ok
            THEN /\ req' = [req EXCEPT ![p].pc = "g_list", ![p].dropped = FALSE,
                                       ![p].rows = {}]
                 /\ resp' = NoResp
            ELSE Respond(p, 500, <<>>)
      [] req[p].op = "RecalculateMatches" ->
            IF ok THEN Respond(p, 200, <<>>) ELSE Respond(p, 500, <<>>)
      [] req[p].op = "Login" ->            \* the goroutine ends; the error is only logged
            /\ req' = [req EXCEPT ![p] = IdleReq]
            /\ resp' = NoResp
      [] OTHER -> Respond(p, 204, <<>>)    \* DeleteConnection: the error is only logged

\* (SELECT role FROM users;) db.Begin(); DROP TABLE IF EXISTS temp_matches
CalcDrop(p) ==
    /\ req[p].pc = "c_drop"
    /\ ~DropBlocked(p)
    /\ req' = [req EXCEPT ![p].pc = "c_create", ![p].dropped = temp_matches.exists]
    /\ UNCHANGED <<profileVars, chatVars, notifVars, connections, nextConnId, dismissed_matches,
                   temp_matches, requests, faults, everConnected>>
    /\ resp' = NoResp

\* CREATE TABLE IF NOT EXISTS dismissed_matches; CREATE TABLE temp_matches
CalcCreate(p) ==
    /\ req[p].pc = "c_create"
    /\ \/ /\ req[p].dropped \/ ~temp_matches.exists
          /\ req[p].dropped \/ ~\E q \in Procs \ {p} : CreatedPending(q)
          /\ Goto(p, "c_insert")
          /\ UNCHANGED <<temp_matches, dismissed_matches>>
       \/ /\ ~req[p].dropped /\ temp_matches.exists   \* relation already exists
          /\ CalcReturn(p, FALSE)
          /\ Rollback(p)
    /\ UNCHANGED <<profileVars, chatVars, notifVars, connections, nextConnId, requests, faults, everConnected>>

\* INSERT INTO temp_matches ... SELECT ...
CalcInsert(p) ==
    /\ req[p].pc = "c_insert"
    /\ req' = [req EXCEPT ![p].pc = "c_commit", ![p].rows = MatchRows(req[p].userID)]
    /\ UNCHANGED <<profileVars, chatVars, notifVars, connections, nextConnId, dismissed_matches,
                   temp_matches, requests, faults, everConnected>>
    /\ resp' = NoResp

\* a table recreated empty
DropAndCreate(rows) == {}

\* CREATE TABLE IF NOT EXISTS dismissed_matches: an existing table keeps its rows
CreateIfNotExists(rows) == rows

\* tx.Commit(): the new table replaces the old one
CalcCommit(p) ==
    /\ req[p].pc = "c_commit"
    /\ temp_matches' = Table(req[p].rows)
    /\ dismissed_matches' = CreateIfNotExists(dismissed_matches)
    /\ CalcReturn(p, TRUE)
    /\ UNCHANGED <<profileVars, chatVars, notifVars, connections, nextConnId, requests, faults, everConnected>>

\* the role query, Begin, one of the three Exec or Commit returns an error
CalcFails(p) ==
    /\ req[p].pc \in CalcPcs
    /\ CanFault
    /\ faults' = faults + 1
    /\ CalcReturn(p, FALSE)
    /\ Rollback(p)
    /\ UNCHANGED <<profileVars, chatVars, notifVars, connections, nextConnId, requests, everConnected>>

\* ------------------------------------------------------------------ GetStoredMatches
\* the orders ORDER BY tm.match_score DESC allows
Orderings(rows) ==
    { b \in [1 .. Cardinality(rows) -> rows] :
        /\ \A i, j \in DOMAIN b : i # j => b[i] # b[j]
        /\ \A i, j \in DOMAIN b : i < j => b[i].match_score >= b[j].match_score }

GetStoredMatches(p) ==
    /\ req[p].pc = "g_list"
    /\ \E t \in VisibleTemp(p) :
          \/ /\ ~t.exists                 \* relation does not exist
             /\ Respond(p, 500, <<>>)
          \/ /\ t.exists
             /\ \E b \in Orderings(RowsOf(t, req[p].userID)) :
                   Respond(p, 200, b)
    /\ UNCHANGED <<profileVars, chatVars, notifVars, connections, nextConnId, dismissed_matches,
                   temp_matches, requests, faults, everConnected>>

GetStoredMatchesFails(p) ==
    /\ req[p].pc = "g_list"
    /\ CanFault
    /\ faults' = faults + 1
    /\ Respond(p, 500, <<>>)
    /\ UNCHANGED <<profileVars, chatVars, notifVars, connections, nextConnId, dismissed_matches,
                   temp_matches, requests, everConnected>>

\* ------------------------------------------------------------------ GetPotentialMatchesHandler, RecalculateMatchesHandler
GetPotentialMatchesHandler(p, u) ==
    /\ Receive(p, "GetPotentialMatches", u, 0, "c_drop")
    /\ UNCHANGED <<profileVars, chatVars, notifVars, connections, nextConnId, dismissed_matches,
                   temp_matches, faults, everConnected>>
    /\ resp' = NoResp

RecalculateMatchesHandler(p, u) ==
    /\ Receive(p, "RecalculateMatches", u, 0, "c_drop")
    /\ UNCHANGED <<profileVars, chatVars, notifVars, connections, nextConnId, dismissed_matches,
                   temp_matches, faults, everConnected>>
    /\ resp' = NoResp

\* LoginHandler with valid credentials: the token is stored, the recompute is
\* started with go func() and the handler answers 200 without waiting for it;
\* slot p is that goroutine from here on
LoginHandler(p, u) ==
    /\ Receive(p, "Login", u, 0, "c_drop")
    /\ UNCHANGED <<profileVars, chatVars, notifVars, connections, nextConnId, dismissed_matches,
                   temp_matches, faults, everConnected>>
    /\ resp' = [op |-> "Login", userID |-> u, targetID |-> 0, at |-> "login",
                code |-> 200, body |-> <<>>]

\* ------------------------------------------------------------------ DismissMatchHandler
DismissKey(p) == <<req[p].userID, req[p].targetID>>

\* the rows a DELETE on user_id alone would remove
DismissedRowsOfSubject(p) ==
    RowsOf(temp_matches, req[p].userID)

DismissedRows(p) ==
    {r \in RowsOf(temp_matches, req[p].userID) : r.match_id = req[p].targetID}

DismissMatchHandler(p, u, t) ==
    /\ Receive(p, "DismissMatch", u, t, "d_insert")
    /\ UNCHANGED <<profileVars, chatVars, notifVars, connections, nextConnId, dismissed_matches,
                   temp_matches, faults, everConnected>>
    /\ resp' = NoResp

\* db.Begin(); CREATE TABLE IF NOT EXISTS dismissed_matches; INSERT INTO
\* dismissed_matches (primary key (user_id, match_id); an uncommitted insert of
\* the same key by another transaction makes this one wait)
DismissInsert(p) ==
    /\ req[p].pc = "d_insert"
    /\ ~\E q \in Procs \ {p} :
            req[q].pc \in {"d_delete", "d_commit"} /\ DismissKey(q) = DismissKey(p)
    /\ \/ /\ DismissKey(p) \in dismissed_matches     \* duplicate key: 500
          /\ Respond(p, 500, <<>>)
       \/ /\ DismissKey(p) \notin dismissed_matches
          /\ Goto(p, "d_delete")
    /\ Rollback(p)
    /\ UNCHANGED <<profileVars, chatVars, notifVars, connections, nextConnId, requests, faults, everConnected>>

\* DELETE FROM temp_matches WHERE user_id = $1 AND match_id = $2, then RowsAffected
DismissDelete(p) ==
    /\ req[p].pc = "d_delete"
    /\ ~TempLocked(p)
    /\ \/ /\ ~temp_matches.exists                     \* relation does not exist: 500
          /\ Respond(p, 500, <<>>)
       \/ /\ temp_matches.exists
          /\ DismissedRows(p) = {}                   \* rowsAffected == 0: 404
          /\ Respond(p, 404, <<>>)
       \/ /\ temp_matches.exists
          /\ DismissedRows(p) # {}
          /\ Goto(p, "d_commit")
    /\ Rollback(p)
    /\ UNCHANGED <<profileVars, chatVars, notifVars, connections, nextConnId, requests, faults, everConnected>>

\* tx.Commit()
DismissCommit(p) ==
    /\ req[p].pc = "d_commit"
    /\ dismissed_matches' = dismissed_matches \cup {DismissKey(p)}
    /\ temp_matches' = Table(temp_matches.rows \ DismissedRows(p))
    /\ Respond(p, 204, <<>>)
    /\ UNCHANGED <<profileVars, chatVars, notifVars, connections, nextConnId, requests, faults, everConnected>>

\* Begin, an Exec or Commit returns an error: 500, rolled back
DismissFails(p) ==
    /\ req[p].pc \in DismissPcs
    /\ CanFault
    /\ faults' = faults + 1
    /\ Respond(p, 500, <<>>)
    /\ Rollback(p)
    /\ UNCHANGED <<profileVars, chatVars, notifVars, connections, nextConnId, requests, everConnected>>

\* ------------------------------------------------------------------ CreateConnectionHandler
ConnectsInFlight == Cardinality({q \in Procs : req[q].pc \in {"k_check", "k_insert"}})

CreateConnectionHandler(p, u, t) ==
    /\ nextConnId + ConnectsInFlight <= MaxConnId
    /\ Receive(p, "CreateConnection", u, t, "k_check")
    /\ UNCHANGED <<profileVars, chatVars, notifVars, connections, nextConnId, dismissed_matches,
                   temp_matches, faults, everConnected>>
    /\ resp' = NoResp

\* CheckConnectionExistsQuery
CreateConnectionCheck(p) ==
    /\ req[p].pc = "k_check"
    /\ \/ /\ Connected(req[p].userID, req[p].targetID)
          /\ Respond(p, 409, <<>>)
       \/ /\ ~Connected(req[p].userID, req[p].targetID)
          /\ Goto(p, "k_insert")
    /\ UNCHANGED <<profileVars, chatVars, notifVars, connections, nextConnId, dismissed_matches,
                   temp_matches, requests, faults, everConnected>>

\* CreateConnectionQuery, committed on its own
\* UNIQUE(initiator_id, target_id): a second row in the same direction is
\* refused by the store, and the handler answers 500
CreateConnectionInsert(p) ==
    /\ req[p].pc = "k_insert"
    /\ IF ConnectedOneWay(req[p].userID, req[p].targetID)
       THEN /\ Respond(p, 500, <<>>)
            /\ UNCHANGED <<connections, nextConnId, everConnected>>
       ELSE /\ connections' = connections \cup
                  {[id |-> nextConnId, initiator_id |-> req[p].userID,
                    target_id |-> req[p].targetID]}
            /\ nextConnId' = nextConnId + 1
            /\ everConnected' = everConnected \cup {{req[p].userID, req[p].targetID}}
            /\ Goto(p, "k_delete")
    /\ UNCHANGED <<profileVars, chatVars, notifVars, dismissed_matches, temp_matches, requests, faults>>

\* the rows of DELETE FROM temp_matches WHERE (user_id = $1 AND match_id = $2)
\*                                          OR (user_id = $2 AND match_id = $1)
PairRows(a, b) ==
    {r \in temp_matches.rows :
        \/ r.user_id = a /\ r.match_id = b
        \/ r.user_id = b /\ r.match_id = a}

CreateConnectionDelete(p) ==
    /\ req[p].pc = "k_delete"
    /\ ~TempLocked(p)
    /\ ~\E q \in Procs \ {p} :       \* row locked by an uncommitted dismiss
            /\ HoldsRowExclusive(q)
            /\ DismissedRows(q) \cap PairRows(req[p].userID, req[p].targetID) # {}
    /\ temp_matches' =
          (IF ~temp_matches.exists THEN NoTable    \* the error is only logged
           ELSE Table(temp_matches.rows \ PairRows(req[p].userID, req[p].targetID)))
    /\ Respond(p, 200, <<>>)
    /\ UNCHANGED <<profileVars, chatVars, notifVars, connections, nextConnId, dismissed_matches,
                   requests, faults, everConnected>>

\* the existence check or the insert fails: 500
CreateConnectionFails(p) ==
    /\ req[p].pc \in {"k_check", "k_insert"}
    /\ CanFault
    /\ faults' = faults + 1
    /\ Respond(p, 500, <<>>)
    /\ UNCHANGED <<profileVars, chatVars, notifVars, connections, nextConnId, dismissed_matches,
                   temp_matches, requests, everConnected>>

\* the DELETE fails: logged, the connection is still reported created
CreateConnectionDeleteFails(p) ==
    /\ req[p].pc = "k_delete"
    /\ CanFault
    /\ faults' = faults + 1
    /\ Respond(p, 200, <<>>)
    /\ UNCHANGED <<profileVars, chatVars, notifVars, connections, nextConnId, dismissed_matches,
                   temp_matches, requests, everConnected>>

\* ------------------------------------------------------------------ DeleteConnectionHandler
\* the rows a DELETE by id alone would remove
DeletedConnectionsById(p) ==
    {c \in connections : c.id = req[p].targetID}

DeletedConnections(p) ==
    {c \in connections :
        /\ c.id = req[p].targetID
        /\ c.initiator_id = req[p].userID \/ c.target_id = req[p].userID}

DeleteConnectionHandler(p, u, id) ==
    /\ Receive(p, "DeleteConnection", u, id, "x_delete")
    /\ UNCHANGED <<profileVars, chatVars, notifVars, connections, nextConnId, dismissed_matches,
                   temp_matches, faults, everConnected>>
    /\ resp' = NoResp

\* DeleteConnectionQuery, RowsAffected, SELECT role
DeleteConnectionDelete(p) ==
    /\ req[p].pc = "x_delete"
    /\ \/ /\ DeletedConnections(p) = {}
          /\ Respond(p, 404, <<>>)
          /\ UNCHANGED <<connections, chat_messages>>
       \/ /\ DeletedConnections(p) # {}
          /\ connections' = connections \ DeletedConnections(p)
          \* chat_messages.match_id REFERENCES connections(id) ON DELETE CASCADE
          /\ chat_messages' =
                {m \in chat_messages :
                    m.match_id \notin {c.id : c \in DeletedConnections(p)}}
          /\ Goto(p, "c_drop")
    /\ UNCHANGED <<profileVars, chatConnections, chatSocket, delivered, notifVars,
                   nextConnId, dismissed_matches, temp_matches,
                   requests, faults, everConnected>>

\* DeleteConnectionQuery fails: 500
DeleteConnectionFails(p) ==
    /\ req[p].pc = "x_delete"
    /\ CanFault
    /\ faults' = faults + 1
    /\ Respond(p, 500, <<>>)
    /\ UNCHANGED <<profileVars, chatVars, notifVars, connections, nextConnId, dismissed_matches,
                   temp_matches, requests, everConnected>>

\* ------------------------------------------------------------------ GetPotentialMatchesHandler over GetPotentialMatchesQuery
\* the handler of handlers/connection/queries.go that answers from the query
PotentialMatchesQueryHandler(p, u) ==
    /\ Receive(p, "PotentialMatchesQuery", u, 0, "q_query")
    /\ UNCHANGED <<profileVars, chatVars, notifVars, connections, nextConnId, dismissed_matches,
                   temp_matches, faults, everConnected>>
    /\ resp' = NoResp

\* SELECT role FROM users; db.Query(GetPotentialMatchesQuery)
QueryPotentialMatches(p) ==
    /\ req[p].pc = "q_query"
    /\ req' = [req EXCEPT ![p].pc = "q_scan", ![p].rows = GetPotentialMatchesQuery]
    /\ UNCHANGED <<profileVars, chatVars, notifVars, connections, nextConnId, dismissed_matches,
                   temp_matches, requests, faults, everConnected>>
    /\ resp' = NoResp

\* rows.Next() / rows.Scan with twelve destinations for the thirteen columns of
\* the query: the first row makes Scan fail; with no row the empty list is sent
ScanPotentialMatches(p) ==
    /\ req[p].pc = "q_scan"
    /\ IF req[p].rows = {} THEN Respond(p, 200, <<>>) ELSE Respond(p, 500, <<>>)
    /\ UNCHANGED <<profileVars, chatVars, notifVars, connections, nextConnId, dismissed_matches,
                   temp_matches, requests, faults, everConnected>>

\* the role query or db.Query returns an error: 500
QueryPotentialMatchesFails(p) ==
    /\ req[p].pc = "q_query"
    /\ CanFault
    /\ faults' = faults + 1
    /\ Respond(p, 500, <<>>)
    /\ UNCHANGED <<profileVars, chatVars, notifVars, connections, nextConnId, dismissed_matches,
                   temp_matches, requests, everConnected>>

\* ------------------------------------------------------------------ Next
Next ==
    \E p \in Procs :
        \/ \E u \in Users : GetPotentialMatchesHandler(p, u)
        \/ \E u \in Users : RecalculateMatchesHandler(p, u)
        \/ CalcDrop(p)
        \/ CalcCreate(p)
        \/ CalcInsert(p)
        \/ CalcCommit(p)
        \/ CalcFails(p)
        \/ GetStoredMatches(p)
        \/ GetStoredMatchesFails(p)
        \/ \E u, t \in Users : DismissMatchHandler(p, u, t)
        \/ DismissInsert(p)
        \/ DismissDelete(p)
        \/ DismissCommit(p)
        \/ DismissFails(p)
        \/ \E u, t \in Users : CreateConnectionHandler(p, u, t)
        \/ CreateConnectionCheck(p)
        \/ CreateConnectionInsert(p)
        \/ CreateConnectionDelete(p)
        \/ CreateConnectionFails(p)
        \/ CreateConnectionDeleteFails(p)
        \/ \E u \in Users, id \in 1 .. MaxConnId : DeleteConnectionHandler(p, u, id)
        \/ DeleteConnectionDelete(p)
        \/ DeleteConnectionFails(p)

Spec == Init /\ [][Next]_vars

\* logins and the requests that recompute and list, served concurrently
NextLogin ==
    \E p \in Procs :
        \/ \E u \in Users : LoginHandler(p, u)
        \/ \E u \in Users : GetPotentialMatchesHandler(p, u)
        \/ \E u \in Users : RecalculateMatchesHandler(p, u)
        \/ CalcDrop(p)
        \/ CalcCreate(p)
        \/ CalcInsert(p)
        \/ CalcCommit(p)
        \/ CalcFails(p)
        \/ GetStoredMatches(p)
        \/ GetStoredMatchesFails(p)

SpecLogin == Init /\ [][NextLogin]_vars

\* recomputes served one at a time, over every profile pair
NextScore ==
    \E p \in {1} :
        \/ \E u \in Users : RecalculateMatchesHandler(p, u)
        \/ CalcDrop(p)
        \/ CalcCreate(p)
        \/ CalcInsert(p)
        \/ CalcCommit(p)
        \/ CalcFails(p)

SpecScore == InitScore /\ [][NextScore]_vars

\* the five-factor query run for one requester at a time
NextQuery ==
    \E p \in {1} :
        \/ \E u \in {1, 2} : PotentialMatchesQueryHandler(p, u)
        \/ QueryPotentialMatches(p)
        \/ ScanPotentialMatches(p)
        \/ QueryPotentialMatchesFails(p)

SpecQuery == InitQuery /\ [][NextQuery]_vars


\* ------------------------------------------------------------------ UpdateUserStatus
MaxNow == 3        \* months the clock advances in one run

\* Scan of the row UpdateUserStatus selects returns an error: database/sql
\* stores a NULL deadline into a time.Time no more than a NULL state, city or
\* zip_code into a string
StatusScanFails(u) ==
    IF role[u] = "provider"
    THEN u \in DOMAIN provider_data /\ provider_data[u].deadline.null
    ELSE location[u].state = "NULL" \/ location[u].city = "NULL" \/ zip_code[u] = "NULL"

\* newStatus without the zip_code conjunct
newStatusNoZip(u) ==
    IF role[u] = "provider"
    THEN IF u \notin DOMAIN provider_data THEN "active"
         ELSE IF provider_data[u].deadline.months < now THEN "inactive" ELSE "active"
    ELSE IF /\ organization_name[u] # ""
            /\ sectors[u] # {}
            /\ target_groups[u] # {}
            /\ location[u].state # ""
            /\ location[u].city # ""
         THEN "active" ELSE "inactive"

\* the status UpdateUserStatus writes: a provider is inactive once
\* deadline.Before(time.Now()), active with no provider_data row; a recipient is
\* active with all six profile fields non-empty
newStatus(u) ==
    IF role[u] = "provider"
    THEN IF u \notin DOMAIN provider_data THEN "active"
         ELSE IF provider_data[u].deadline.months < now THEN "inactive" ELSE "active"
    ELSE IF /\ organization_name[u] # ""
            /\ sectors[u] # {}
            /\ target_groups[u] # {}
            /\ location[u].state # ""
            /\ location[u].city # ""
            /\ zip_code[u] # ""
         THEN "active" ELSE "inactive"

\* ------------------------------------------------------------------ accounts
\* Each handler below is one transaction, committed or rolled back as a whole,
\* with no other request beside it: one step. userID 0 is a request without a
\* valid token (GetUserIDFromToken returns an error).
matchVars == <<connections, nextConnId, dismissed_matches, temp_matches, req,
               faults, everConnected>>

AccountRespond(o, u, at, c) ==
    /\ requests < MaxRequests
    /\ requests' = requests + 1
    /\ resp' = [op |-> o, userID |-> u, targetID |-> 0, at |-> at, code |-> c,
                body |-> <<>>]

\* the role check of SignupHandler
ValidRole(r) == r = "provider" \/ r = "recipient"

\* SignupHandler: an invalid role is answered 400. With a valid role
\* INSERT INTO users (email, password_hash, role) leaves out status, which is
\* NOT NULL without a default: the insert fails, the handler answers 500 and the
\* deferred Rollback ends the transaction. (Past that insert the handler would
\* store a NULL deadline, state, city and zip_code and call UpdateUserStatus,
\* whose Scan fails on them.)
SignupHandler(r) ==
    /\ IF ~ValidRole(r)
       THEN AccountRespond("Signup", 0, "validate_role", 400)
       ELSE AccountRespond("Signup", 0, "insert_user", 500)
    /\ UNCHANGED <<profileVars, matchVars, chatVars, notifVars>>

\* a pointer field of updateRequest: {} is nil, {v} points to v
Merge(old, opt) == IF opt = {} THEN old ELSE CHOOSE v \in opt : TRUE

\* the update requests drawn: the empty one and those that set one field
NoUpdate ==
    [organization_name |-> {}, state |-> {}, city |-> {}, zip_code |-> {},
     sectors |-> {}, target_groups |-> {}, chat_opt_in |-> {}]

Updates ==
    {NoUpdate}
    \cup {[NoUpdate EXCEPT !.organization_name = {v}] : v \in {"", "Org"}}
    \cup {[NoUpdate EXCEPT !.state = {v}] : v \in {"", "CA"}}
    \cup {[NoUpdate EXCEPT !.city = {v}] : v \in {"", "Los Angeles"}}
    \cup {[NoUpdate EXCEPT !.zip_code = {v}] : v \in {"", "90001"}}
    \cup {[NoUpdate EXCEPT !.sectors = {v}] : v \in {{}, {"Education"}}}
    \cup {[NoUpdate EXCEPT !.target_groups = {v}] : v \in {{}, {"Youth"}}}

\* SelectProfileQuery scanned into string fields: a NULL state, city or zip_code
\* is an error
ProfileScanFails(u) ==
    location[u].state = "NULL" \/ location[u].city = "NULL" \/ zip_code[u] = "NULL"

\* PUT /me/profile behind AuthMiddleware: merge, UPDATE profiles,
\* UpdateUserStatus, Commit
UpdateProfileHandler(u, upd) ==
    /\ u = 0 \/ (u \in Users /\ role[u] # "none")
    /\ CASE u = 0 ->
               /\ AccountRespond("UpdateProfile", u, "auth", 401)
               /\ UNCHANGED profileVars
         [] u # 0 /\ ProfileScanFails(u) ->
               /\ AccountRespond("UpdateProfile", u, "select_profile", 500)
               /\ UNCHANGED profileVars
         \* the UPDATE leaves the deadline alone and writes no NULL
         [] u # 0 /\ ~ProfileScanFails(u) /\ StatusScanFails(u) ->
               /\ AccountRespond("UpdateProfile", u, "update_status", 500)
               /\ UNCHANGED profileVars
         [] OTHER ->
               /\ organization_name' = [organization_name EXCEPT
                                           ![u] = Merge(@, upd.organization_name)]
               /\ location' = [location EXCEPT
                                  ![u] = [state |-> Merge(@.state, upd.state),
                                          city |-> Merge(@.city, upd.city)]]
               /\ zip_code' = [zip_code EXCEPT ![u] = Merge(@, upd.zip_code)]
               /\ sectors' = [sectors EXCEPT ![u] = Merge(@, upd.sectors)]
               /\ target_groups' = [target_groups EXCEPT ![u] = Merge(@, upd.target_groups)]
               /\ chat_opt_in' = [chat_opt_in EXCEPT ![u] = Merge(@, upd.chat_opt_in)]
               /\ UNCHANGED <<role, now, project_stage, provider_data, recipient_data>>
               /\ status' = [status EXCEPT ![u] = newStatus(u)']
               /\ AccountRespond("UpdateProfile", u, "commit", 200)
    /\ UNCHANGED <<matchVars, chatVars, notifVars>>

\* a role column that takes any string
AnyRole == {"provider", "recipient", "admin"}

\* the roles the generator assigns: "recipient", or "provider" on gofakeit.Bool()
TestRoles == {"provider", "recipient"}

\* the users.id serial: the next organization
NewUser == CHOOSE u \in Users : role[u] = "none"

\* POST /api/test/generate-users?count=1, registered outside the protected
\* subrouter: a user of a random role with a complete profile and, for a
\* provider, a deadline within three months; UpdateUserStatus; Commit; then
\* RecalculateMatchesForAllUsers recomputes for every active user in turn, the
\* table of the last one remains
GenerateTestDataHandler(u) ==
    /\ u = 0 \/ (u \in Users /\ role[u] # "none")
    /\ \E x \in Users : role[x] = "none"
    /\ \E n \in {NewUser} :
       /\ \E r \in TestRoles : role' = [role EXCEPT ![n] = r]
       /\ organization_name' = [organization_name EXCEPT ![n] = "Org"]
       /\ location' = [location EXCEPT ![n] = [state |-> "CA", city |-> "Los Angeles"]]
       /\ zip_code' = [zip_code EXCEPT ![n] = "90001"]
       /\ sectors' = [sectors EXCEPT ![n] = {"Education"}]
       /\ target_groups' = [target_groups EXCEPT ![n] = {"Youth"}]
       /\ project_stage' = [project_stage EXCEPT ![n] = "Early Stage"]
       /\ \E b \in BOOLEAN : chat_opt_in' = [chat_opt_in EXCEPT ![n] = b]   \* gofakeit.Bool()
       /\ IF role'[n] = "provider"
          THEN /\ \E d \in {now, now + 3} :
                     provider_data' = provider_data @@
                        (n :> [funding_type |-> "seed", amount_offered |-> 50,
                               deadline |-> Deadline(d)])
               /\ UNCHANGED recipient_data
          ELSE /\ recipient_data' = recipient_data @@
                        (n :> [budget_requested |-> 40, timeline |-> "1-3 months"])
               /\ UNCHANGED provider_data
       /\ UNCHANGED now
       /\ status' = [status EXCEPT ![n] = newStatus(n)']
    /\ UNCHANGED <<connections, nextConnId, req, faults, everConnected, chatVars, notifVars>>
    /\ dismissed_matches' = CreateIfNotExists(dismissed_matches)
    /\ LET active == {x \in Users : status'[x] = "active"} IN
       IF active = {} THEN UNCHANGED temp_matches
       ELSE \E last \in active : temp_matches' = Table(MatchRows(last)')
    /\ AccountRespond("GenerateTestData", u, "commit", 200)

\* time passes; no request runs
Tick ==
    /\ now < MaxNow
    /\ now' = now + 1
    /\ resp' = NoResp
    /\ UNCHANGED <<role, status, organization_name, zip_code, sectors, target_groups,
                   project_stage, location, provider_data, recipient_data, chat_opt_in,
                   matchVars, chatVars, notifVars, requests>>

\* provider 1 and recipient 2 exist, organization 3 does not yet. The rows are
\* any the schema allows: provider 1's deadline can be NULL, recipient 2's state
\* can be NULL; a stored status is the one UpdateUserStatus derived when the row
\* was written
InitAccount ==
    /\ role = (1 :> "provider" @@ 2 :> "recipient" @@ 3 :> "none")
    /\ now = 0
    /\ organization_name = (1 :> "Org" @@ 2 :> "Org" @@ 3 :> "")
    /\ zip_code = (1 :> "90001" @@ 2 :> "90001" @@ 3 :> "NULL")
    /\ \E s \in {"CA", "NULL"} :
          location = (1 :> [state |-> "CA", city |-> "Los Angeles"]
                      @@ 2 :> [state |-> s, city |-> "Los Angeles"]
                      @@ 3 :> [state |-> "NULL", city |-> "NULL"])
    /\ \E s \in {{}, {"Education"}} : sectors = (1 :> {"Education"} @@ 2 :> s @@ 3 :> {})
    /\ target_groups = (1 :> {"Youth"} @@ 2 :> {"Youth"} @@ 3 :> {})
    /\ project_stage = (1 :> "" @@ 2 :> "Early Stage" @@ 3 :> "")
    /\ \E d \in {NullDeadline, Deadline(1), Deadline(2)} :
          provider_data = (1 :> [funding_type |-> "seed", amount_offered |-> 50,
                                 deadline |-> d])
    /\ recipient_data = (2 :> [budget_requested |-> 40, timeline |-> "1-3 months"])
    /\ status = (1 :> "active"
                 @@ 2 :> (IF StatusScanFails(2) THEN "inactive" ELSE newStatus(2))
                 @@ 3 :> "none")
    /\ connections = {}
    /\ nextConnId = 1
    /\ dismissed_matches = {}
    /\ temp_matches = NoTable
    /\ req = [p \in Procs |-> IdleReq]
    /\ resp = NoResp
    /\ requests = 0
    /\ faults = 0
    /\ everConnected = {}
    /\ chat_opt_in = [u \in Users |-> FALSE]
    /\ InitSockets

NextAccount ==
    \/ \E r \in {"provider", "recipient", "admin"} : SignupHandler(r)
    \/ \E u \in {0, 1, 2} : \E upd \in Updates : UpdateProfileHandler(u, upd)
    \/ \E u \in {0, 1} : GenerateTestDataHandler(u)
    \/ Tick

SpecAccount == InitAccount /\ [][NextAccount]_vars


\* ------------------------------------------------------------------ CreateConnectionHandler, two requests at once
\* the handler's entry with no cap on the serial: the requests of one run are
\* bounded by MaxRequests alone, so two of them can stand between the
\* existence check and the insert
CreateConnectionArrives(p, u, t) ==
    /\ Receive(p, "CreateConnection", u, t, "k_check")
    /\ UNCHANGED <<profileVars, chatVars, notifVars, connections, nextConnId, dismissed_matches,
                   temp_matches, faults, everConnected>>
    /\ resp' = NoResp

NextConnect ==
    \E p \in Procs :
        \/ \E u \in Users, t \in Users : CreateConnectionArrives(p, u, t)
        \/ CreateConnectionCheck(p)
        \/ CreateConnectionInsert(p)
        \/ CreateConnectionDelete(p)
        \/ CreateConnectionFails(p)
        \/ CreateConnectionDeleteFails(p)

SpecConnect == Init /\ [][NextConnect]_vars


\* ------------------------------------------------------------------ chat: UpdateChatPreferencesHandler, HandleWebSocket
\* The handlers below answer through http.Error or the upgrade; a socket's
\* goroutine then runs its read loop one statement at a time. userID 0 is a
\* request without a valid token.
ChatRespond(o, u, id, at, c) ==
    /\ requests < MaxRequests
    /\ requests' = requests + 1
    /\ resp' = [op |-> o, userID |-> u, targetID |-> id, at |-> at, code |-> c,
                body |-> <<>>]

\* status.GetUserStatus: the status derived at read time
GetUserStatus(u) ==
    IF role[u] = "provider"
    THEN IF /\ u \in DOMAIN provider_data
            /\ ~provider_data[u].deadline.null
            /\ provider_data[u].deadline.months < now
         THEN "closed" ELSE "active"
    ELSE IF /\ organization_name[u] # "NULL"
            /\ sectors[u] # {}
            /\ target_groups[u] # {}
            /\ location[u].state # "NULL"
            /\ location[u].city # "NULL"
            /\ zip_code[u] # "NULL"
         THEN "active" ELSE "draft"

\* PUT chat preferences: only a user GetUserStatus calls active may set the flag
UpdateChatPreferencesHandler(u, b) ==
    /\ u = 0 \/ (u \in Users /\ role[u] # "none")
    /\ CASE u = 0 ->
               /\ ChatRespond("UpdateChatPreferences", u, 0, "auth", 401)
               /\ UNCHANGED chat_opt_in
         [] u # 0 /\ GetUserStatus(u) # "active" ->
               /\ ChatRespond("UpdateChatPreferences", u, 0, "status", 403)
               /\ UNCHANGED chat_opt_in
         [] OTHER ->
               /\ chat_opt_in' = [chat_opt_in EXCEPT ![u] = b]
               /\ ChatRespond("UpdateChatPreferences", u, 0, "update", 200)
    /\ UNCHANGED <<role, status, organization_name, zip_code, now, sectors,
                   target_groups, project_stage, location, provider_data,
                   recipient_data, matchVars, chatVars, notifVars>>

\* the rows counted by the SELECT COUNT(*) of HandleWebSocket: u1 is the
\* initiator and u2 the target of the connection
VerifiedConnections(matchID, userID) ==
    {c \in connections :
        /\ c.id = matchID
        /\ c.initiator_id = userID \/ c.target_id = userID
        /\ chat_opt_in[c.initiator_id]
        /\ chat_opt_in[c.target_id]
        /\ role[c.initiator_id] = "provider"
        /\ role[c.target_id] = "recipient"
        /\ \/ status[c.initiator_id] = "active"
           \/ c.target_id = c.initiator_id /\ status[c.target_id] = "active"
        /\ \/ c.initiator_id = c.target_id /\ status[c.initiator_id] = "active"
           \/ status[c.target_id] = "active"}

\* GET /ws/chat/{matchId}?token=...: the token, the count, the upgrade, the
\* entry in the connections map. The sockets are interchangeable: the lowest
\* free one is the new conn
HandleWebSocket(s, u, matchID) ==
    /\ chatSocket[s].pc = "closed"
    /\ \A t \in Sockets : t < s => chatSocket[t].pc # "closed"
    /\ u = 0 \/ (u \in Users /\ role[u] # "none")
    /\ CASE u = 0 ->
               /\ ChatRespond("HandleWebSocket", u, matchID, "token", 401)
               /\ UNCHANGED <<chatConnections, chatSocket>>
         [] u # 0 /\ VerifiedConnections(matchID, u) = {} ->
               /\ ChatRespond("HandleWebSocket", u, matchID, "verify", 401)
               /\ UNCHANGED <<chatConnections, chatSocket>>
         [] OTHER ->
               /\ chatSocket' = [chatSocket EXCEPT
                                    ![s] = [pc |-> "open", userID |-> u, matchID |-> matchID,
                                            message |-> NoMessage, broken |-> FALSE]]
               /\ chatConnections' = chatConnections \cup {<<matchID, s>>}
               /\ ChatRespond("HandleWebSocket", u, matchID, "upgrade", 101)
    /\ UNCHANGED <<profileVars, matchVars, chat_messages, delivered, notifVars>>

\* the chat messages a client sends: any id, match_id and sender_id
ClientMessages ==
    [id : {0, 1}, match_id : {1, 2}, sender_id : {1, 2}, content : {"hi"}]

\* the message as the client sent it
Unstamped(s, m) == m

\* message.MatchID = matchID; message.SenderID = userID
Stamp(s, m) ==
    [m EXCEPT !.match_id = chatSocket[s].matchID, !.sender_id = chatSocket[s].userID]

\* conn.ReadMessage returns a chat message: json.Unmarshal, the two assignments
ReadMessage(s, m) ==
    /\ chatSocket[s].pc = "open"
    /\ ~chatSocket[s].broken
    /\ chatSocket' = [chatSocket EXCEPT ![s].pc = "insert", ![s].message = Stamp(s, m)]
    /\ resp' = NoResp
    /\ UNCHANGED <<profileVars, matchVars, requests, chat_messages, chatConnections,
                   delivered, notifVars>>

\* the sockets registered for a match
ConnsOf(matchID) == {t \in Sockets : <<matchID, t>> \in chatConnections}

\* broadcastMessage / broadcastTyping under connLock: a write to every socket
\* of the match; those whose write fails (failed) are closed and leave the map
Broadcast(matchID, kind, m, failed) ==
    /\ delivered' =
          {[conn |-> t, kind |-> kind, message |-> m] : t \in ConnsOf(matchID) \ failed}
    /\ chatConnections' = chatConnections \ {<<matchID, t>> : t \in failed}

\* the typing messages a client sends
ClientTyping == [match_id : {2}, user_id : {2}, typing : {TRUE}]

\* conn.ReadMessage returns a message that contains "typing": UserID is
\* overwritten, the message is broadcast and not stored
ReadTyping(s, tm) ==
    /\ chatSocket[s].pc = "open"
    /\ ~chatSocket[s].broken
    /\ \E failed \in SUBSET ConnsOf(chatSocket[s].matchID) :
          /\ failed # {} => CanFault
          /\ faults' = IF failed = {} THEN faults ELSE faults + 1
          /\ Broadcast(chatSocket[s].matchID, "typing",
                       [tm EXCEPT !.user_id = chatSocket[s].userID], failed)
          /\ chatSocket' = [t \in Sockets |->
                               [chatSocket[t] EXCEPT !.broken = @ \/ t \in failed]]
    /\ resp' = NoResp
    /\ UNCHANGED <<profileVars, connections, nextConnId, dismissed_matches, temp_matches,
                   req, everConnected, requests, chat_messages, notifVars>>

\* INSERT INTO chat_messages (id, match_id, sender_id, ...): id is the
\* client's (PRIMARY KEY), match_id REFERENCES connections(id); on an error the
\* loop continues with the next message
InsertMessage(s) ==
    /\ chatSocket[s].pc = "insert"
    /\ LET m == chatSocket[s].message IN
       IF \/ \E r \in chat_messages : r.id = m.id
          \/ ~\E c \in connections : c.id = m.match_id
       THEN /\ chatSocket' = [chatSocket EXCEPT ![s].pc = "open", ![s].message = NoMessage]
            /\ UNCHANGED chat_messages
       ELSE /\ chat_messages' = chat_messages \cup {m}
            /\ chatSocket' = [chatSocket EXCEPT ![s].pc = "broadcast"]
    /\ resp' = NoResp
    /\ UNCHANGED <<profileVars, matchVars, requests, chatConnections, delivered, notifVars>>

\* db.Exec returns an error: continue
InsertMessageFails(s) ==
    /\ chatSocket[s].pc = "insert"
    /\ CanFault
    /\ faults' = faults + 1
    /\ chatSocket' = [chatSocket EXCEPT ![s].pc = "open", ![s].message = NoMessage]
    /\ resp' = NoResp
    /\ UNCHANGED <<profileVars, connections, nextConnId, dismissed_matches, temp_matches,
                   req, everConnected, requests, chat_messages, chatConnections,
                   delivered, notifVars>>

\* broadcastMessage(matchID, messageType, message) after the insert
broadcastMessage(s) ==
    /\ chatSocket[s].pc = "broadcast"
    /\ \E failed \in SUBSET ConnsOf(chatSocket[s].matchID) :
          /\ failed # {} => CanFault
          /\ faults' = IF failed = {} THEN faults ELSE faults + 1
          /\ Broadcast(chatSocket[s].matchID, "chat", chatSocket[s].message, failed)
          /\ chatSocket' = [t \in Sockets |->
                               [chatSocket[t] EXCEPT
                                   !.broken = @ \/ t \in failed,
                                   !.pc = IF t = s THEN "open" ELSE @,
                                   !.message = IF t = s THEN NoMessage ELSE @]]
    /\ resp' = NoResp
    /\ UNCHANGED <<profileVars, connections, nextConnId, dismissed_matches, temp_matches,
                   req, everConnected, requests, chat_messages, notifVars>>

\* conn.ReadMessage returns an error (the peer left, or the conn was closed by
\* a failed write): the cleanup under connLock, then the deferred conn.Close()
CloseChatSocket(s) ==
    /\ chatSocket[s].pc = "open"
    /\ chatConnections' = chatConnections \ {<<chatSocket[s].matchID, s>>}
    /\ chatSocket' = [chatSocket EXCEPT ![s] = ClosedSocket]
    /\ resp' = NoResp
    /\ UNCHANGED <<profileVars, matchVars, requests, chat_messages, delivered, notifVars>>

\* organizations 1 (provider) and 2 (recipient) with any ledger a
\* CreateConnection leaves between them, either chat flag, and the stored
\* status UpdateUserStatus derived: recipient 2 is inactive without sectors,
\* provider 1 is inactive if its row was written after its deadline
InitChat ==
    /\ role = InitRole
    /\ organization_name = [u \in Users |-> "Org"]
    /\ zip_code = [u \in Users |-> "90001"]
    /\ InitGrantData
    /\ \E s \in {{}, {"Education", "Health"}} :
          sectors = (1 :> {"Education"} @@ 2 :> s @@ 3 :> {"Health"})
    /\ target_groups = (1 :> {"Youth"} @@ 2 :> {"Youth"} @@ 3 :> {"Youth"})
    /\ now \in {0, 3}
    /\ \E a \in {"active", "inactive"} :
          /\ a = "inactive" => now = 3
          /\ status = (1 :> a @@ 2 :> newStatus(2) @@ 3 :> "active")
    /\ \E ledger \in {{}, {<<1, 2>>}, {<<2, 1>>}} :
          /\ connections = {[id |-> 1, initiator_id |-> e[1], target_id |-> e[2]] :
                               e \in ledger}
          /\ nextConnId = 1 + Cardinality(ledger)
          /\ everConnected = {{e[1], e[2]} : e \in ledger}
    /\ \E o1, o2 \in BOOLEAN : chat_opt_in = (1 :> o1 @@ 2 :> o2 @@ 3 :> FALSE)
    /\ dismissed_matches = {}
    /\ temp_matches = NoTable
    /\ req = [p \in Procs |-> IdleReq]
    /\ resp = NoResp
    /\ requests = 0
    /\ faults = 0
    /\ InitSockets

NextChat ==
    \/ \E u \in {0, 1, 2}, b \in BOOLEAN : UpdateChatPreferencesHandler(u, b)
    \/ \E s \in Sockets, u \in {0, 1, 2, 3}, matchID \in {1} : HandleWebSocket(s, u, matchID)
    \/ \E s \in Sockets :
          \/ \E m \in ClientMessages : ReadMessage(s, m)
          \/ \E tm \in ClientTyping : ReadTyping(s, tm)
          \/ InsertMessage(s)
          \/ InsertMessageFails(s)
          \/ broadcastMessage(s)
          \/ CloseChatSocket(s)

SpecChat == InitChat /\ [][NextChat]_vars


\* ------------------------------------------------------------------ notifications: HandleNotificationWebSocket, SendNotification
\* GET /ws/notifications?token=...: the token, the upgrade, then
\* notificationConnections[userID] = conn under notifLock, whatever entry the
\* user had
HandleNotificationWebSocket(s, u) ==
    /\ notifSocket[s].pc = "closed"
    /\ \A t \in Sockets : t < s => notifSocket[t].pc # "closed"
    /\ u = 0 \/ (u \in Users /\ role[u] # "none")
    /\ IF u = 0
       THEN /\ ChatRespond("HandleNotificationWebSocket", u, 0, "token", 401)
            /\ UNCHANGED notifVars
       ELSE /\ notifSocket' = [notifSocket EXCEPT ![s] = [pc |-> "open", userID |-> u]]
            /\ notificationConnections' = [notificationConnections EXCEPT ![u] = s]
            /\ ChatRespond("HandleNotificationWebSocket", u, s, "upgrade", 101)
    /\ UNCHANGED <<profileVars, matchVars, chatVars>>

\* delete(notificationConnections, userID)
Unregister(s) ==
    [notificationConnections EXCEPT ![notifSocket[s].userID] = 0]

\* the first write or conn.ReadMessage returns an error: the deferred function
\* deletes the user's entry under notifLock and closes the conn
CloseNotificationSocket(s) ==
    /\ notifSocket[s].pc = "open"
    /\ notificationConnections' = Unregister(s)
    /\ notifSocket' = [notifSocket EXCEPT ![s] = [pc |-> "closed", userID |-> 0]]
    /\ resp' = NoResp
    /\ UNCHANGED <<profileVars, matchVars, requests, chatVars>>

\* SendNotification(userID, messageType): the entry read under notifLock, then
\* a write to that conn if there is one (targetID: the conn written to)
SendNotification(u) ==
    /\ resp' = [op |-> "SendNotification", userID |-> u,
                targetID |-> notificationConnections[u], at |-> "write",
                code |-> 0, body |-> <<>>]
    /\ UNCHANGED <<profileVars, matchVars, requests, chatVars, notifVars>>

NextNotify ==
    \/ \E s \in Sockets, u \in {0} \cup Users : HandleNotificationWebSocket(s, u)
    \/ \E s \in Sockets : CloseNotificationSocket(s)
    \/ \E u \in Users : SendNotification(u)

SpecNotify == Init /\ [][NextNotify]_vars


\* ================================================================== properties
\* a step of p's recompute (any statement of CalculateAndStoreMatches, or its failure)
RecomputeStep(p) == req[p].pc \in CalcPcs /\ req'[p] # req[p]

\* the pair {a, b} has a row in connections, in either direction
InLedger(a, b) ==
    \E c \in connections : {c.initiator_id, c.target_id} = {a, b}

\* C1 (as stated): in every state with no recompute, dismiss or connect in flight,
\* no stored candidate row (A, B) has A dismissed B or A and B connected.
C1_ExclusionInvariant ==
    Quiescent =>
        \A r \in temp_matches.rows :
            /\ <<r.user_id, r.match_id>> \notin dismissed_matches
            /\ ~InLedger(r.user_id, r.match_id)

\* C2 (as stated): a step of recompute(A) leaves every other user's stored
\* candidate rows exactly as they were.
C2_RecomputeTouchesOnlySubject ==
    [][\A p \in Procs :
          RecomputeStep(p) =>
              \A b \in Users \ {req[p].userID} :
                  RowsOf(temp_matches', b) = RowsOf(temp_matches, b)]_vars

\* C3: a recompute changes the stored candidate rows in one step only, its
\* commit, and then to its complete new set; every other step of it, and every
\* failure at any statement, leaves the committed tables as they were.
C3_RecomputeAllOrNothing ==
    [][\A p \in Procs :
          RecomputeStep(p) =>
              /\ dismissed_matches' = dismissed_matches
              /\ \/ temp_matches' = temp_matches
                 \/ /\ req[p].pc = "c_commit"
                    /\ faults' = faults
                    /\ temp_matches' = Table(req[p].rows)
              /\ faults' # faults => temp_matches' = temp_matches]_vars

\* C3 witness: a recompute that had replaced the table inside its transaction
\* failed at commit, and the subject's previous rows are still stored
C3_Witness ==
    /\ resp.op = "RecalculateMatches"
    /\ resp.code = 500
    /\ resp.at = "c_commit"
    /\ RowsOf(temp_matches, resp.userID) # {}

C5_DismissIdempotent ==
    [][\A p \in Procs :
          (/\ req[p].op = "DismissMatch"
           /\ req'[p].pc = "idle"
           /\ DismissKey(p) \in dismissed_matches
           /\ faults' = faults) => resp'.code = 204]_vars

\* C6 (as stated): the connection row and the removal of the pair's candidate
\* rows appear together: no state has a connection whose pair still has a
\* stored candidate row.
C6_ConnectAtomic ==
    \A c \in connections : PairRows(c.initiator_id, c.target_id) = {}

\* C7 (as stated): once a pair has been connected, no later state at rest has
\* a stored candidate row for it, whatever happens afterwards.
C7_ConnectionPermanent ==
    (Quiescent /\ faults = 0) =>
        \A a, b \in Users :
            {a, b} \in everConnected => PairRows(a, b) = {}

\* C7 (amended): the rows a recompute computes never contain a pair that has a
\* connection row, in either direction, at that moment.
C7_NoConnectedPairGenerated ==
    [][\A p \in Procs :
          (req[p].pc = "c_insert" /\ req'[p].pc = "c_commit") =>
              \A r \in req'[p].rows : ~InLedger(r.user_id, r.match_id)]_vars

\* C7 witness: a pair that was connected and then disconnected is stored again
\* by the recompute the disconnect ran, with nothing in flight and no failure
C7_Witness ==
    /\ Quiescent
    /\ faults = 0
    /\ \E a, b \in Users :
          /\ {a, b} \in everConnected
          /\ ~InLedger(a, b)
          /\ PairRows(a, b) # {}


\* the step in which p's recompute runs its INSERT ... SELECT
InsertStep(p) == req[p].pc = "c_insert" /\ req'[p].pc = "c_commit"

\* candidate c shares a sector or a target group with subject s
SharesTag(s, c) ==
    \/ \E x \in sectors[s] : x \in sectors[c]
    \/ \E x \in target_groups[s] : x \in target_groups[c]

\* the filters of the candidate query other than the score: opposite role,
\* active candidate, not dismissed by s, not connected to s, a shared tag
PassesGate(s, c) ==
    /\ role[c] # role[s]
    /\ status[c] = "active"
    /\ <<s, c>> \notin dismissed_matches
    /\ ~InLedger(s, c)
    /\ SharesTag(s, c)

\* (shared sectors / subject's sectors) * 30 + (shared groups / subject's groups) * 30
\* >= 30, an empty subject set contributing 0; compared without dividing
AtLeast30(s, c) ==
    LET a1 == Cardinality(sectors[c] \cap sectors[s])
        a2 == Cardinality(target_groups[c] \cap target_groups[s])
        n1 == IF sectors[s] = {} THEN 1 ELSE Cardinality(sectors[s])
        n2 == IF target_groups[s] = {} THEN 1 ELSE Cardinality(target_groups[s])
    IN  30 * a1 * n2 + 30 * a2 * n1 >= 30 * n1 * n2

Exactly30(s, c) ==
    LET a1 == Cardinality(sectors[c] \cap sectors[s])
        a2 == Cardinality(target_groups[c] \cap target_groups[s])
        n1 == IF sectors[s] = {} THEN 1 ELSE Cardinality(sectors[s])
        n2 == IF target_groups[s] = {} THEN 1 ELSE Cardinality(target_groups[s])
    IN  30 * a1 * n2 + 30 * a2 * n1 = 30 * n1 * n2

\* C8 (as stated): when recompute(B) has computed a row for A while the row
\* recompute(A) stored for B is in the table, over the same profiles, the two
\* rows carry the same score.
C8_ScoreSymmetry ==
    \A p \in Procs :
        req[p].pc = "c_commit" =>
            \A r \in req[p].rows : \A r2 \in temp_matches.rows :
                (r2.user_id = r.match_id /\ r2.match_id = r.user_id)
                    => r2.match_score = r.match_score

\* C9: the rows a recompute computes are exactly the candidates that pass the
\* other filters and score at least 30: exactly 30 is stored, below 30 never.
C9_ThresholdBoundary ==
    [][\A p \in Procs :
          InsertStep(p) =>
              LET s == req[p].userID
                  stored == {r.match_id : r \in req'[p].rows}
              IN  /\ \A r \in req'[p].rows : r.user_id = s
                  /\ \A c \in Users :
                        c \in stored <=> (PassesGate(s, c) /\ AtLeast30(s, c))]_vars

\* C9 witness: a committed recompute stored a candidate scoring exactly 30 and
\* left out one that passes the other filters and scores below 30
C9_Witness ==
    /\ resp.op = "RecalculateMatches"
    /\ resp.code = 200
    /\ \E c \in Users :
          /\ Exactly30(resp.userID, c)
          /\ \E r \in temp_matches.rows : r.user_id = resp.userID /\ r.match_id = c
    /\ \E c \in Users :
          /\ PassesGate(resp.userID, c)
          /\ ~AtLeast30(resp.userID, c)
          /\ ~\E r \in temp_matches.rows : r.user_id = resp.userID /\ r.match_id = c

\* C10: no row a recompute computes pairs a subject and a candidate that share
\* neither a sector nor a target group, and a subject with no sectors and no
\* target groups gets no rows.
C10_PositiveSignalGate ==
    [][\A p \in Procs :
          InsertStep(p) =>
              /\ \A r \in req'[p].rows : SharesTag(r.user_id, r.match_id)
              /\ (sectors[req[p].userID] = {} /\ target_groups[req[p].userID] = {})
                    => req'[p].rows = {}]_vars

\* C10 witness: a recompute committed an empty set for a subject with no sectors
\* and no target groups although an active organization of the opposite role exists
C10_Witness ==
    /\ resp.op = "RecalculateMatches"
    /\ resp.code = 200
    /\ sectors[resp.userID] = {}
    /\ target_groups[resp.userID] = {}
    /\ temp_matches = Table({})
    /\ \E c \in Users : role[c] # role[resp.userID] /\ status[c] = "active"

\* C11 (as stated): the rows a recompute for S computes pair S only with
\* candidates of the opposite role, and only when S and the candidate are both
\* active; a subject that is not active gets no rows.
C11_RoleStatusGate ==
    [][\A p \in Procs :
          InsertStep(p) =>
              /\ \A r \in req'[p].rows :
                    /\ role[r.match_id] # role[r.user_id]
                    /\ status[r.match_id] = "active"
                    /\ status[r.user_id] = "active"
              /\ status[req[p].userID] # "active" => req'[p].rows = {}]_vars

\* C12 (as stated): a list that answers 200 returns its rows by descending
\* score, rows of equal score by ascending candidate id.
C12_DeterministicOrdering ==
    [][\A p \in Procs :
          (req[p].pc = "g_list" /\ req'[p].pc = "idle" /\ resp'.code = 200) =>
              \A i, j \in DOMAIN resp'.body :
                  i < j =>
                      \/ resp'.body[i].match_score > resp'.body[j].match_score
                      \/ /\ resp'.body[i].match_score = resp'.body[j].match_score
                         /\ resp'.body[i].match_id < resp'.body[j].match_id]_vars

\* C13: every row the five-factor query returns carries a composite between 0
\* and 100, and so does the composite the recompute's query gives any pair of
\* opposite roles, whichever of the two is the subject.
C13_CompositeRange ==
    /\ \A p \in Procs :
          req[p].pc = "q_scan" =>
              \A r \in req[p].rows :
                  /\ r.match_score >= 0
                  /\ r.match_score <= 100 * WeightDen * ScoreDen
    /\ \A s, u \in Users :
          role[s] # role[u] =>
              /\ MatchScore(s, u) >= 0
              /\ MatchScore(s, u) <= 100 * ScoreDen

\* C13 witness: the five-factor query has returned a row whose composite is
\* exactly 100
C13_Witness ==
    \E p \in Procs :
        /\ req[p].pc = "q_scan"
        /\ \E r \in req[p].rows : r.match_score = 100 * WeightDen * ScoreDen

\* the scenario pair: provider 1 with {Education}, {Youth}, 50 (thousand) offered,
\* deadline two months ahead; recipient 2 with {Education, Health}, {Youth}, 40
\* requested, timeline short_term, Early Stage
ScenarioPair ==
    /\ sectors[1] = {"Education"} /\ target_groups[1] = {"Youth"}
    /\ provider_data[1].amount_offered = 50
    /\ provider_data[1].deadline = Deadline(2)
    /\ sectors[2] = {"Education", "Health"} /\ target_groups[2] = {"Youth"}
    /\ recipient_data[2].budget_requested = 40
    /\ recipient_data[2].timeline = "short_term"
    /\ project_stage[2] = "Early Stage"
    /\ status[1] = "active" /\ status[2] = "active"

\* C14 (as stated): for the scenario pair the scoring query returns a row whose
\* sector, target-group, budget and timeline scores are each 100 and whose
\* composite is at least 80.
C14_ScenarioScores ==
    \A p \in Procs :
        (req[p].pc = "q_scan" /\ ScenarioPair /\ location[1] = location[2]) =>
            \E r \in req[p].rows :
                /\ r.provider_id = 1 /\ r.recipient_id = 2
                /\ r.sector_score = 100 * ScoreDen
                /\ r.target_group_score = 100 * ScoreDen
                /\ r.budget_score = 100 * ScoreDen
                /\ r.timeline_score = 100 * ScoreDen
                /\ r.match_score >= 80 * WeightDen * ScoreDen

\* C15 (as stated): a dismiss of a candidate that has no row in the subject's
\* candidate set, when no statement is made to fail, answers 404 and leaves the
\* dismissal rows and the candidate rows as they were.
C15_DismissAbsentIs404 ==
    [][\A p \in Procs :
          (/\ req[p].op = "DismissMatch"
           /\ req'[p].pc = "idle"
           /\ faults' = faults
           /\ DismissedRows(p) = {}) =>
              /\ resp'.code = 404
              /\ dismissed_matches' = dismissed_matches
              /\ temp_matches' = temp_matches]_vars

\* C16: no step removes or alters a committed dismissal row: the rows of
\* dismissed_matches only grow.
C16_DismissalsPermanent ==
    [][dismissed_matches \subseteq dismissed_matches']_vars

\* C16 witness: a recompute has just committed while a dismissal row exists
C16_Witness ==
    /\ dismissed_matches # {}
    /\ resp.op = "RecalculateMatches"
    /\ resp.code = 200

\* C17 (as stated): every connection row links two distinct organizations of
\* opposite role.
C17_ConnectionsOppositeRole ==
    \A c \in connections :
        /\ c.initiator_id # c.target_id
        /\ role[c.initiator_id] # role[c.target_id]

\* C18 (as stated): when DeleteConnection answers success, the rows stored for
\* the caller are the rows a recompute gives over the ledger without the
\* deleted connection.
C18_DisconnectRecomputes ==
    [][\A p \in Procs :
          (/\ req[p].op = "DeleteConnection"
           /\ req'[p].pc = "idle"
           /\ resp'.code = 204) =>
              /\ temp_matches'.exists
              /\ RowsOf(temp_matches', req[p].userID) = MatchRows(req[p].userID)]_vars

\* no request other than p's is changing connections or dismissals: the others
\* are idle or are recomputing or listing
OnlyRecomputesBeside(p) ==
    \A q \in Procs \ {p} :
        req[q].op \in {"none", "GetPotentialMatches", "RecalculateMatches"}

\* C19 (as stated): the list GET potential-matches returns for S is the set of
\* rows the candidate query gives for S over the profiles, connections and
\* dismissals current at that moment, also while other subjects' requests
\* recompute concurrently (no connection was ever made, no statement failed).
C19_GetReturnsFreshSet ==
    [][\A p \in Procs :
          (/\ req[p].op = "GetPotentialMatches"
           /\ req[p].pc = "g_list"
           /\ req'[p].pc = "idle"
           /\ OnlyRecomputesBeside(p)
           /\ everConnected = {}
           /\ faults = 0
           /\ resp'.code = 200) =>
              {resp'.body[i] : i \in DOMAIN resp'.body} = MatchRows(req[p].userID)]_vars

\* p's recompute returns an error in this step: a statement of it fails, or
\* CREATE TABLE finds the relation already there; the handler returns
RecomputeFailsStep(p) ==
    /\ req[p].pc \in CalcPcs
    /\ req'[p].pc = "idle"
    /\ faults' # faults \/ req[p].pc # "c_commit"

\* C20 (as stated): a request whose recompute failed is answered with a failure
\* status, never with a success.
C20_RecomputeFailureSurfaced ==
    [][\A p \in Procs : RecomputeFailsStep(p) => resp'.code >= 400]_vars

\* table holds the row (a, b): b is in a's stored candidate set
Stored(table, a, b) == \E r \in table.rows : r.user_id = a /\ r.match_id = b

\* C21 (as stated): when B's recompute commits while the set A's recompute
\* stored is in the table and is what the candidate query gives for A now (no
\* connection, dismissal or failure has ever happened, no other request is in
\* flight), then afterwards B is in A's stored set iff A is in B's stored set.
C21_MutualConvergence ==
    [][\A p \in Procs : \A a \in Users :
          (/\ req[p].pc = "c_commit"
           /\ req'[p].pc # "c_commit"
           /\ faults' = faults
           /\ a # req[p].userID
           /\ \A q \in Procs \ {p} : req[q].pc = "idle"
           /\ everConnected = {} /\ dismissed_matches = {} /\ faults = 0
           /\ RowsOf(temp_matches, a) # {}
           /\ RowsOf(temp_matches, a) = MatchRows(a)) =>
              (Stored(temp_matches', a, req[p].userID)
                  <=> Stored(temp_matches', req[p].userID, a))]_vars

\* C22: the role of an existing organization never changes, every role written
\* is provider or recipient, and a signup rejected for its role creates no user.
C22_RoleFixedAtSignup ==
    [][/\ \A u \in Users : role[u] # "none" => role'[u] = role[u]
       /\ \A u \in Users : role'[u] \in {"none", "provider", "recipient"}
       /\ (resp'.op = "Signup" /\ resp'.at = "validate_role") =>
             (resp'.code = 400 /\ role' = role)]_vars

\* C22 witness: a signup has been rejected for its role while an organization
\* created after the start still has the role it was created with
C22_Witness ==
    /\ resp.op = "Signup" /\ resp.code = 400
    /\ role[3] \in {"provider", "recipient"}
    /\ now > 0

\* C24 (as stated): in every state the stored status of each organization is the
\* one UpdateUserStatus would derive now from its data and the clock.
C24_StatusNeverStale ==
    \A u \in Users :
        (role[u] # "none" /\ ~StatusScanFails(u)) => status[u] = newStatus(u)

\* C23 (as stated): a request without a valid token to an endpoint other than
\* signup and login is answered 401 and changes no table.
C23_NoTokenRejected ==
    [][(resp'.op \notin {"none", "Signup", "Login"} /\ resp'.userID = 0) =>
          (resp'.code = 401 /\ UNCHANGED <<profileVars, chatVars, notifVars, matchVars>>)]_vars

\* C25 (as stated): UpdateUserStatus run for a provider whose deadline is NULL
\* succeeds and stores active, and a signup with a valid role succeeds.
C25_NullDeadlineActive ==
    [][/\ \A u \in Users :
             (/\ resp'.op = "UpdateProfile" /\ resp'.userID = u
              /\ role[u] = "provider"
              /\ u \in DOMAIN provider_data /\ provider_data[u].deadline.null
              /\ ~ProfileScanFails(u)) =>
                 (resp'.code = 200 /\ status'[u] = "active")
       /\ (resp'.op = "Signup" /\ resp'.at # "validate_role") => resp'.code < 300]_vars

\* the six profile fields of u are all non-empty (a NULL is empty)
Complete(u) ==
    /\ organization_name[u] \notin {"", "NULL"}
    /\ location[u].state \notin {"", "NULL"}
    /\ location[u].city \notin {"", "NULL"}
    /\ zip_code[u] \notin {"", "NULL"}
    /\ sectors[u] # {}
    /\ target_groups[u] # {}

\* the handler of this step ran UpdateUserStatus for u and committed
StatusUpdated(u) ==
    /\ resp'.code = 200
    /\ \/ resp'.op = "UpdateProfile" /\ resp'.userID = u
       \/ resp'.op = "GenerateTestData" /\ role[u] = "none" /\ role'[u] # "none"

\* C26: after UpdateUserStatus has run for a recipient, its stored status is
\* active if its organization name, state, city, zip code, sectors and target
\* groups are all non-empty, and inactive otherwise.
C26_RecipientStatus ==
    [][\A u \in Users :
          (StatusUpdated(u) /\ role'[u] = "recipient") =>
              status'[u] = (IF Complete(u)' THEN "active" ELSE "inactive")]_vars

\* C26 witness: a profile update of recipient 2 has committed and left it
\* inactive for its empty zip code alone
C26_Witness ==
    /\ resp.op = "UpdateProfile" /\ resp.userID = 2 /\ resp.code = 200
    /\ role[2] = "recipient"
    /\ zip_code[2] = ""
    /\ organization_name[2] # "" /\ sectors[2] # {} /\ target_groups[2] # {}
    /\ location[2].state = "CA"
    /\ status[2] = "inactive"

\* positions of a recompute that has executed a statement and has not ended
StartedPcs == {"c_create", "c_insert", "c_commit"}

\* C27 (as stated): the recompute a login started and the recompute of a
\* potential-matches or recalculate request of the same subject are never both
\* under way, and with no store failure neither of them returns an error.
C27_SameSubjectSerial ==
    [][\A p, q \in Procs :
          (/\ p # q
           /\ req[p].op = "Login"
           /\ req[q].op \in {"GetPotentialMatches", "RecalculateMatches"}
           /\ req[p].userID = req[q].userID) =>
              /\ ~(req'[p].pc \in StartedPcs /\ req'[q].pc \in StartedPcs)
              /\ faults' = faults =>
                    (~RecomputeFailsStep(p) /\ ~RecomputeFailsStep(q))]_vars

\* |a \cap b| / max(|a|, |b|) of a weight-30 term, in units of 1/ScoreDen; 0
\* when either set is empty
OverlapOverMax(a, b) ==
    IF a = {} \/ b = {} THEN 0
    ELSE (Cardinality(a \cap b) * 30 * ScoreDen) \div Max(Cardinality(a), Cardinality(b))

\* C28 (as stated): when a recompute for subject s has computed its rows, the
\* sector term and the target-group term it uses for every organization u of
\* the opposite role are |A \cap B| / max(|A|, |B|) of the weight, the same
\* whichever of the two is the subject, and 0 when either set is empty.
C28_OverlapFactor ==
    \A p \in Procs :
        req[p].pc = "c_commit" =>
            LET s == req[p].userID IN
            \A u \in Users :
                role[u] # role[s] =>
                    /\ OverlapTerm(sectors[u], sectors[s])
                          = OverlapOverMax(sectors[u], sectors[s])
                    /\ OverlapTerm(target_groups[u], target_groups[s])
                          = OverlapOverMax(target_groups[u], target_groups[s])
                    /\ OverlapTerm(sectors[u], sectors[s])
                          = OverlapTerm(sectors[s], sectors[u])

\* the five-factor query has been run for the requester and has returned rows
QueryRan(p) == req[p].pc = "q_scan"

\* C29 (as stated): in every row the five-factor query returns, the budget
\* factor is 100 when amount_offered >= budget_requested > 0, the ratio when
\* amount_offered < budget_requested, and 0 when budget_requested is 0 or unset.
C29_BudgetFactor ==
    \A p \in Procs :
        QueryRan(p) =>
            \A row \in req[p].rows :
                LET a == provider_data[row.provider_id].amount_offered
                    b == recipient_data[row.recipient_id].budget_requested
                IN  row.budget_score =
                       (CASE b = 0 -> 0
                          [] a >= b -> 100 * ScoreDen
                          [] OTHER -> (a * 100 * ScoreDen) \div b)

\* C30 (as stated): in every row the five-factor query returns, the timeline
\* factor is 100 when the provider's deadline is NULL or falls between now and
\* now plus the horizon of the recipient's timeline, and 0 otherwise.
C30_TimelineFactor ==
    \A p \in Procs :
        QueryRan(p) =>
            \A row \in req[p].rows :
                LET d == provider_data[row.provider_id].deadline
                    h == TimelineHorizon(recipient_data[row.recipient_id].timeline)
                IN  row.timeline_score =
                       (IF d.null \/ (now <= d.months /\ d.months <= now + h)
                        THEN 100 * ScoreDen ELSE 0)

\* project_stage and funding_type name the same stage
ExactPairing(st, ft) ==
    \/ st = "Early Stage" /\ ft = "seed"
    \/ st = "Growth Stage" /\ ft = "series a"
    \/ st = "Mature Stage" /\ ft = "series b"

\* a pitch competition with a recipient of a listed stage
AdjacentPairing(st, ft) ==
    ft = "pitch comp" /\ st \in {"Early Stage", "Growth Stage", "Mature Stage"}

\* C31: once the five-factor query has run, the stage factor of every provider
\* and recipient pair is 100 for an exact pairing, between 40 and 80 for an
\* adjacent one and 20 for any other combination, NULL and unknown values
\* included; it is never 0.
C31_StageFactor ==
    \A p \in Procs :
        QueryRan(p) =>
            \A a, b \in Users :
                (role[a] = "provider" /\ role[b] = "recipient") =>
                    LET st == project_stage[b]
                        ft == provider_data[a].funding_type
                        sc == stage_score(a, b)
                    IN  /\ sc > 0
                        /\ ExactPairing(st, ft) => sc = 100 * ScoreDen
                        /\ AdjacentPairing(st, ft) =>
                              (40 * ScoreDen <= sc /\ sc <= 80 * ScoreDen)
                        /\ (~ExactPairing(st, ft) /\ ~AdjacentPairing(st, ft)) =>
                              sc = 20 * ScoreDen

\* C31 witness: the query has returned a row for a recipient whose project_stage
\* is NULL, with stage factor 20
C31_Witness ==
    \E p \in Procs :
        /\ QueryRan(p)
        /\ \E row \in req[p].rows :
              /\ project_stage[row.recipient_id] = "NULL"
              /\ row.stage_score = 20 * ScoreDen

\* C32 (as stated): when RecalculateMatchesForAllUsers has returned (the last
\* call of the test-data generator), the stored rows of every active user are
\* the rows of that user's own recompute.
C32_AllUsersStored ==
    [][resp'.op = "GenerateTestData" =>
          \A u \in Users :
              status'[u] = "active" => RowsOf(temp_matches', u) = MatchRows(u)']_vars

\* C33 (as stated): in every reachable state at most one connection row exists
\* per unordered pair of organizations, concurrent CreateConnection requests for
\* the pair included.
C33_OneRowPerPair ==
    \A c1 \in connections, c2 \in connections :
        {c1.initiator_id, c1.target_id} = {c2.initiator_id, c2.target_id} => c1 = c2

\* a DeleteConnection request whose DELETE is about to run and whose user is
\* neither initiator nor target of the connection it addresses
OutsiderDelete(p) ==
    /\ req[p].pc = "x_delete"
    /\ \E c \in connections :
          /\ c.id = req[p].targetID
          /\ req[p].userID \notin {c.initiator_id, c.target_id}

\* C34: when the DELETE of a DeleteConnection request by a user who is not a
\* party to the addressed connection has run, the request is answered 404 and
\* the ledger, the candidate sets and the dismissals are unchanged.
C34_OutsiderCannotDelete ==
    [][\A p \in Procs :
          (OutsiderDelete(p) /\ req'[p].pc # "x_delete" /\ faults' = faults)
              => /\ resp'.op = "DeleteConnection"
                 /\ resp'.code = 404
                 /\ req'[p].pc = "idle"
                 /\ connections' = connections
                 /\ temp_matches' = temp_matches
                 /\ dismissed_matches' = dismissed_matches]_vars

\* C34 witness: an outsider's DeleteConnection was answered 404 and the
\* connection it addressed is still in the ledger.
C34_Witness ==
    /\ resp.op = "DeleteConnection"
    /\ resp.code = 404
    /\ \E c \in connections :
          /\ c.id = resp.targetID
          /\ resp.userID \notin {c.initiator_id, c.target_id}

\* the rows of a table other than the row of subject s for candidate c
RowsBeside(t, s, c) ==
    {r \in t.rows : ~(r.user_id = s /\ r.match_id = c)}

\* C35: a dismiss(S,C) answered 204 adds the dismissal (S,C) and removes S's
\* candidate row for C; every other dismissal, every other candidate row (C's
\* rows among them), the ledger and the profiles are unchanged.
C35_DismissOneDirectional ==
    [][(resp'.op = "DismissMatch" /\ resp'.code = 204)
          => /\ <<resp'.userID, resp'.targetID>> \in dismissed_matches'
             /\ dismissed_matches' \ {<<resp'.userID, resp'.targetID>>}
                   = dismissed_matches \ {<<resp'.userID, resp'.targetID>>}
             /\ temp_matches'.exists = temp_matches.exists
             /\ RowsBeside(temp_matches', resp'.userID, resp'.targetID)
                   = RowsBeside(temp_matches, resp'.userID, resp'.targetID)
             /\ RowsOf(temp_matches', resp'.userID)
                   = {r \in RowsOf(temp_matches, resp'.userID) : r.match_id # resp'.targetID}
             /\ connections' = connections
             /\ profileVars' = profileVars]_vars

\* C35 witness: a dismiss(S,C) was answered 204 and S still has a stored row
\* for another candidate.
C35_Witness ==
    /\ resp.op = "DismissMatch"
    /\ resp.code = 204
    /\ <<resp.userID, resp.targetID>> \in dismissed_matches
    /\ RowsOf(temp_matches, resp.userID) # {}

\* the parties of connection id, and what the admission rule of the chat asks
\* of user u: a party to the connection, both parties active and opted in
ChatAllowed(u, id) ==
    \E c \in connections :
        /\ c.id = id
        /\ u \in {c.initiator_id, c.target_id}
        /\ status[c.initiator_id] = "active" /\ status[c.target_id] = "active"
        /\ chat_opt_in[c.initiator_id] /\ chat_opt_in[c.target_id]

\* C36 (as stated): a chat websocket request of an authenticated user is
\* admitted exactly when the user is a party to the connection and both parties
\* are active and opted in, whichever party initiated the connection.
C36_ChatAdmission ==
    [][(resp'.op = "HandleWebSocket" /\ resp'.userID # 0)
          => (resp'.code = 101 <=> ChatAllowed(resp'.userID, resp'.targetID))]_vars

\* C37: every chat message a broadcast wrote to a socket is a stored row of
\* chat_messages, and its match id and sender id are those of the socket whose
\* goroutine broadcast it, whatever the client supplied; the step that ends a
\* failed INSERT writes to no socket and stores nothing.
C37_BroadcastPersisted ==
    [][\A s \in Sockets :
          /\ (chatSocket[s].pc = "broadcast" /\ chatSocket'[s].pc = "open")
                => \A d \in delivered' :
                      /\ d.kind = "chat"
                      /\ d.message \in chat_messages
                      /\ d.message.match_id = chatSocket[s].matchID
                      /\ d.message.sender_id = chatSocket[s].userID
          /\ (chatSocket[s].pc = "insert" /\ chatSocket'[s].pc = "open")
                => /\ delivered' = delivered
                   /\ chat_messages' = chat_messages]_vars

\* C37 witness: the last broadcast wrote a stored chat message to the socket of
\* the other party, while the sender's socket is still open.
C37_Witness ==
    \E d \in delivered :
        /\ d.kind = "chat"
        /\ d.message \in chat_messages
        /\ \E t \in Sockets :
              /\ t # d.conn
              /\ chatSocket[t].pc = "open"
              /\ chatSocket[t].userID = d.message.sender_id
              /\ chatSocket[d.conn].userID # d.message.sender_id

\* the open notification sockets of user u
OpenNotifSockets(u) ==
    {s \in Sockets : notifSocket[s].pc = "open" /\ notifSocket[s].userID = u}

\* C38 (as stated): a user with at least one open notification socket is mapped
\* by notificationConnections to one of its open sockets, and a user with none
\* has no entry.
C38_RegistryConsistent ==
    \A u \in Users :
        IF OpenNotifSockets(u) = {}
        THEN notificationConnections[u] = 0
        ELSE notificationConnections[u] \in OpenNotifSockets(u)

====
